---- MODULE Spec2Model ----
(***************************************************************************)
(* A model of python_backend/engine.py: the Flask application that wraps   *)
(* RAGEngine.  Every HTTP request runs on a worker thread of the server    *)
(* (app.run): the before-request hook builds a RAGEngine and stores it in  *)
(* the module global `engine`, then the view function validates the        *)
(* request and calls engine.load_document or engine.query.                 *)
(*                                                                         *)
(* The state is the persist directory on disk, the global `engine`         *)
(* reference, the RAGEngine objects that exist, each worker's position in  *)
(* its request, and the output the process has produced (token events      *)
(* printed on stdout and the responses returned).                          *)
(***************************************************************************)
EXTENDS Naturals, Sequences, FiniteSets, TLC

\* ------------------------------------------------------------------ bounds
MaxRequests == 3    \* requests accepted over the whole behaviour
MaxChunks == 2      \* chunks the longest document splits into
MaxTokens == 2      \* tokens the language model generates for one answer
MaxRestarts == 1    \* process crashes / restarts
MaxLines == 2       \* lines a caller writes to standard input
MaxLineRequests == 1 \* HTTP requests served while the line protocol is watched

\* ----------------------------------------------------------- configuration
TOP_K_RESULTS == 3

\* The server's worker threads: two requests can be in flight at once.
Threads == {"t1", "t2"}

None == "None"

\* File paths a caller may name, with what Path(file_path).suffix yields and
\* whether Path(file_path).exists().
Paths == {"notes.txt", "PAPER.PDF", "table.csv", "ghost.csv"}

Suffix(p) ==
    CASE p = "notes.txt" -> ".txt"
      [] p = "PAPER.PDF" -> ".PDF"
      [] p = "table.csv" -> ".csv"
      [] p = "ghost.csv" -> ".csv"

Lower(s) ==
    CASE s = ".PDF" -> ".pdf"
      [] OTHER -> s

Exists(p) == p \in {"notes.txt", "PAPER.PDF", "table.csv"}

\* How many chunks the splitter cuts the document at p into: the short
\* file fits one chunk, the long one needs MaxChunks.
NumChunks(p) == IF p = "notes.txt" THEN 1 ELSE MaxChunks

SUPPORTED_EXTENSIONS == {".pdf", ".txt", ".doc", ".docx", ".md"}

Questions == {"what?"}

\* ------------------------------------------------------------------ values
\* The entry FAISS.from_texts([""]) seeds a fresh index with: empty content.
Placeholder == [req |-> 0, source |-> "", seq |-> 0]

\* The chunks request rid obtains from splitting the document at path.
ChunksOf(rid, path, n) == [i \in 1..n |-> [req |-> rid, source |-> path, seq |-> i]]

RECURSIVE SeqToSet(_)
SeqToSet(s) == IF s = <<>> THEN {} ELSE {Head(s)} \cup SeqToSet(Tail(s))

RealChunks(store) == SeqToSet(store) \ {Placeholder}

NoReq == [rid |-> 0, route |-> "none", is_json |-> FALSE, field |-> None]

NoResp ==
    [code |-> 0, status |-> "none", type |-> "none", message |-> "none",
     num_chunks |-> 0, file_path |-> None, answer |-> 0, sources |-> <<>>]

\* jsonify({"error": message}), 400 of the view functions.
BadRequest(message) ==
    [NoResp EXCEPT !.code = 400, !.type = "bad_request", !.message = message]

\* A view that answers 200 whatever the engine returned.
StatusCode_ok(response) == 200

\* The status code the views give an engine response (lines 256 and 272):
\* 200 if response["status"] == "success" else 400.
StatusCode(response) == IF response.status = "success" THEN 200 ELSE 400

\* jsonify(response), StatusCode(response).
Respond(response) == [response EXCEPT !.code = StatusCode(response)]

\* {"status": "error", "message": str(e)} of the engine.
ErrorEnvelope(message) ==
    Respond([NoResp EXCEPT !.status = "error", !.type = "error",
                           !.message = message])

\* An exception that leaves the before-request hook: no code of the
\* application builds a response for it; the framework answers 500.
Unhandled(message) ==
    [NoResp EXCEPT !.code = 500, !.type = "unhandled", !.message = message]

DocumentLoaded(n, path) ==
    Respond([NoResp EXCEPT !.status = "success", !.type = "document_loaded",
                           !.num_chunks = n, !.file_path = path])

\* ---------------------------------------------------------------- retrieval
\* A fixed stand-in for the embedding model's distance between the question
\* and an entry's content.
Distance(q, e) ==
    IF e = Placeholder THEN 2
    ELSE IF e.source = "notes.txt" THEN 1 ELSE 3

Nearest(store, S, q) ==
    CHOOSE i \in S : \A j \in S :
        \/ Distance(q, store[i]) < Distance(q, store[j])
        \/ Distance(q, store[i]) = Distance(q, store[j]) /\ i <= j

RECURSIVE TopK(_, _, _, _)
TopK(store, S, q, k) ==
    IF k = 0 \/ S = {} THEN <<>>
    ELSE LET b == Nearest(store, S, q)
         IN  <<store[b]>> \o TopK(store, S \ {b}, q, k - 1)

\* The retriever vector_store.as_retriever(search_kwargs={"k": K}): the k
\* nearest entries of the store, nearest first.
Search(store, q, k) == TopK(store, DOMAIN store, q, k)

\* A sources list built back to front.
SourcesOf_reversed(docs) ==
    [i \in DOMAIN docs |-> [content |-> docs[Len(docs) + 1 - i],
                            metadata |-> docs[Len(docs) + 1 - i].source]]

\* The sources list built from result["source_documents"].
SourcesOf(docs) ==
    [i \in DOMAIN docs |-> [content |-> docs[i], metadata |-> docs[i].source]]

FinalAnswer(ntokens, docs) ==
    Respond([NoResp EXCEPT !.status = "success", !.type = "final_answer",
                           !.answer = ntokens, !.sources = SourcesOf(docs)])

\* ------------------------------------------------------------------- state
VARIABLES
    disk,       \* the persist directory: [dir, saved, index]
    engine,     \* the module global `engine`: 0 is None, else an engine id
    engines,    \* the RAGEngine objects: id -> [vector_store, qa_chain, loaded]
    pc,         \* each worker's position
    req,        \* the request a worker is handling
    self,       \* the engine a worker's call is bound to (0: none)
    splits,     \* the chunks load_and_split returned to a worker
    retrieved,  \* the documents the retriever returned to a worker
    generated,  \* how many tokens the model has generated for a worker's query
    resp,       \* the response a worker has built
    log,        \* the token events this process has printed on stdout, in order
    acked,      \* chunks of every ingest answered with status success
    nextReq,    \* id of the next request
    restarts,   \* process restarts so far
    stdin,      \* lines written to the process's standard input and not read
    prior       \* for a query in flight: the chunks acknowledged before it arrived

vars == <<disk, engine, engines, pc, req, self, splits, retrieved, generated,
          resp, log, acked, nextReq, restarts,
          stdin, prior>>

NoDisk == [dir |-> FALSE, saved |-> FALSE, index |-> <<>>]

Init ==
    /\ disk = NoDisk
    /\ engine = 0
    /\ engines = <<>>
    /\ pc = [t \in Threads |-> "idle"]
    /\ req = [t \in Threads |-> NoReq]
    /\ self = [t \in Threads |-> 0]
    /\ splits = [t \in Threads |-> <<>>]
    /\ retrieved = [t \in Threads |-> <<>>]
    /\ generated = [t \in Threads |-> 0]
    /\ resp = [t \in Threads |-> NoResp]
    /\ log = <<>>
    /\ acked = {}
    /\ nextReq = 1
    /\ restarts = 0
    /\ stdin = <<>>
    /\ prior = [t \in Threads |-> {}]


\* ----------------------------------------------------------------- helpers
\* The engine objects still referenced once the global is g and the workers'
\* calls are bound as in s: an object nothing refers to is reclaimed.
Live(es, g, s) ==
    [e \in {x \in DOMAIN es : x = g \/ \E t \in Threads : s[t] = x} |-> es[e]]

\* A handler that keeps the token in its own list and prints nothing.
on_llm_new_token_buffered(l, rid, idx) == l

\* StreamHandler.on_llm_new_token: prints one token event, flushed at once.
on_llm_new_token(l, rid, idx) ==
    Append(l, [type |-> "token", rid |-> rid, content |-> idx])

\* Worker t has built response r.
Finish(t, r) ==
    /\ resp' = [resp EXCEPT ![t] = r]
    /\ pc' = [pc EXCEPT ![t] = "done"]
    /\ UNCHANGED log

\* FAISS.save_local / FAISS.load_local: the entries of the store, in order.
SaveLocal(store) == [dir |-> TRUE, saved |-> TRUE, index |-> store]

\* A load that misses the entry written last.
LoadLocal_stale(d) == SubSeq(d.index, 1, Len(d.index) - 1)

LoadLocal(d) == d.index

\* A stage that starts every engine afresh, whatever is persisted.
VectorStoreStage_fresh(d, load_ok) ==
    [disk |-> [d EXCEPT !.dir = TRUE], store |-> <<Placeholder>>,
     loaded |-> d.dir /\ d.saved /\ load_ok]

\* The vector-store stage of setup_components on persist directory d:
\* what the directory is afterwards and the store the engine starts with.
\* `loaded` tells which branch ran: load_local returned (line 119) or the
\* store was built afresh (lines 126 and 131).
VectorStoreStage(d, load_ok) ==
    IF d.dir
    THEN IF d.saved /\ load_ok
         THEN [disk |-> d, store |-> LoadLocal(d), loaded |-> TRUE]
         ELSE [disk |-> d, store |-> <<Placeholder>>, loaded |-> FALSE]
    ELSE [disk |-> [d EXCEPT !.dir = TRUE], store |-> <<Placeholder>>,
          loaded |-> FALSE]

RequestShapes ==
    [route : {"load_document", "query"}, is_json : {FALSE}, field : {None}]
    \cup [route : {"load_document"}, is_json : {TRUE}, field : Paths \cup {None}]
    \cup [route : {"query"}, is_json : {TRUE}, field : Questions \cup {None}]

\* ----------------------------------------------------------------- actions
\* The server hands an incoming request to an idle worker.
Receive(t) ==
    /\ pc[t] = "idle"
    /\ nextReq <= MaxRequests
    /\ \E r \in RequestShapes :
          /\ req' = [req EXCEPT ![t] = [rid |-> nextReq, route |-> r.route,
                                        is_json |-> r.is_json, field |-> r.field]]
          /\ prior' = [prior EXCEPT ![t] =
                          IF r.route = "query" THEN acked ELSE {}]
    /\ nextReq' = nextReq + 1
    /\ pc' = [pc EXCEPT ![t] = "before_request"]
    /\ UNCHANGED <<disk, engine, engines, self, splits, retrieved, generated,
                   resp, log, acked, restarts>>
    /\ UNCHANGED stdin

\* @app.before_request initialize_engine: engine = RAGEngine(config), whose
\* constructor runs setup_components.  A failure of the embeddings, the
\* language model or the chain is logged and re-raised: it leaves the hook.
\* A failure to load the persisted index falls back to a fresh index.
initialize_engine(t) ==
    /\ pc[t] = "before_request"
    /\ \E fail \in {"none", "embeddings", "llm", "qa_chain"}, load_ok \in BOOLEAN :
          LET vs == VectorStoreStage(disk, load_ok)
              rid == req[t].rid
          IN  IF fail = "embeddings"
              THEN /\ Finish(t, Unhandled("Failed to initialize RAG engine"))
                   /\ UNCHANGED <<disk, engine, engines>>
              ELSE IF fail # "none"
              THEN /\ disk' = vs.disk
                   /\ Finish(t, Unhandled("Failed to initialize RAG engine"))
                   /\ UNCHANGED <<engine, engines>>
              ELSE /\ disk' = vs.disk
                   /\ engines' = Live((rid :> [vector_store |-> vs.store,
                                               qa_chain |-> TRUE,
                                               loaded |-> vs.loaded]) @@ engines,
                                      rid, self)
                   /\ engine' = rid
                   /\ pc' = [pc EXCEPT ![t] = "view"]
                   /\ UNCHANGED <<resp, log>>
    /\ UNCHANGED <<req, self, splits, retrieved, generated, acked, nextReq,
                   restarts>>
    /\ UNCHANGED <<stdin, prior>>

\* The view function of POST /load_document up to the call of
\* engine.load_document, which reads the global `engine`.
load_document_view(t) ==
    /\ pc[t] = "view"
    /\ req[t].route = "load_document"
    /\ IF ~req[t].is_json
       THEN Finish(t, BadRequest("Content-Type must be application/json"))
            /\ UNCHANGED self
       ELSE IF req[t].field = None
       THEN Finish(t, BadRequest("file_path is required")) /\ UNCHANGED self
       ELSE /\ self' = [self EXCEPT ![t] = engine]
            /\ pc' = [pc EXCEPT ![t] = "load_and_split"]
            /\ UNCHANGED <<resp, log>>
    /\ UNCHANGED <<disk, engine, engines, req, splits, retrieved, generated,
                   acked, nextReq, restarts>>
    /\ UNCHANGED <<stdin, prior>>

\* DocumentLoader.load_and_split, called first in RAGEngine.load_document,
\* whose except clause turns any exception into an error response.
load_and_split(t) ==
    /\ pc[t] = "load_and_split"
    /\ LET path == req[t].field
       IN  IF ~Exists(path)
           THEN Finish(t, ErrorEnvelope("File not found")) /\ UNCHANGED splits
           ELSE IF Lower(Suffix(path)) \notin SUPPORTED_EXTENSIONS
           THEN Finish(t, ErrorEnvelope("Unsupported file type"))
                /\ UNCHANGED splits
           ELSE \E ok \in BOOLEAN :
                  IF ~ok
                  THEN Finish(t, ErrorEnvelope("loader failed"))
                       /\ UNCHANGED splits
                  ELSE /\ splits' = [splits EXCEPT ![t] =
                              ChunksOf(req[t].rid, path, NumChunks(path))]
                       /\ pc' = [pc EXCEPT ![t] = "add_documents"]
                       /\ UNCHANGED <<resp, log>>
    /\ UNCHANGED <<disk, engine, engines, req, self, retrieved, generated,
                   acked, nextReq, restarts>>
    /\ UNCHANGED <<stdin, prior>>

\* self.vector_store.add_documents(splits): embeds every chunk, then
\* appends them all; an embedding failure adds none.
add_documents(t) ==
    /\ pc[t] = "add_documents"
    /\ \E ok \in BOOLEAN :
          IF ~ok
          THEN Finish(t, ErrorEnvelope("embedding failed")) /\ UNCHANGED engines
          ELSE /\ engines' = [engines EXCEPT ![self[t]].vector_store =
                                                 @ \o splits[t]]
               /\ pc' = [pc EXCEPT ![t] = "save_local"]
               /\ UNCHANGED <<resp, log>>
    /\ UNCHANGED <<disk, engine, req, self, splits, retrieved, generated,
                   acked, nextReq, restarts>>
    /\ UNCHANGED <<stdin, prior>>

\* self.vector_store.save_local(PERSIST_DIR), then the success response.
save_local(t) ==
    /\ pc[t] = "save_local"
    /\ \E ok \in BOOLEAN :
          IF ~ok
          THEN /\ Finish(t, ErrorEnvelope("persist failed"))
               /\ UNCHANGED <<disk, acked>>
          ELSE /\ disk' = SaveLocal(engines[self[t]].vector_store)
               /\ acked' = acked \cup SeqToSet(splits[t])
               /\ Finish(t, DocumentLoaded(Len(splits[t]), req[t].field))
    /\ UNCHANGED <<engine, engines, req, self, splits, retrieved, generated,
                   nextReq, restarts>>
    /\ UNCHANGED <<stdin, prior>>

\* The view function of POST /query up to the call of engine.query.
handle_query(t) ==
    /\ pc[t] = "view"
    /\ req[t].route = "query"
    /\ IF ~req[t].is_json
       THEN Finish(t, BadRequest("Content-Type must be application/json"))
            /\ UNCHANGED self
       ELSE IF req[t].field = None
       THEN Finish(t, BadRequest("question is required")) /\ UNCHANGED self
       ELSE /\ self' = [self EXCEPT ![t] = engine]
            /\ pc' = [pc EXCEPT ![t] = "retrieve"]
            /\ UNCHANGED <<resp, log>>
    /\ UNCHANGED <<disk, engine, engines, req, splits, retrieved, generated,
                   acked, nextReq, restarts>>
    /\ UNCHANGED <<stdin, prior>>

\* RAGEngine.query enters qa_chain.invoke: the retriever fetches the K
\* nearest entries of the engine's store.
retrieve(t) ==
    /\ pc[t] = "retrieve"
    /\ IF ~engines[self[t]].qa_chain
       THEN Finish(t, ErrorEnvelope("QA chain not initialized"))
            /\ UNCHANGED retrieved
       ELSE \E ok \in BOOLEAN :
              IF ~ok
              THEN Finish(t, ErrorEnvelope("retrieval failed"))
                   /\ UNCHANGED retrieved
              ELSE /\ retrieved' = [retrieved EXCEPT ![t] =
                          Search(engines[self[t]].vector_store, req[t].field,
                                 TOP_K_RESULTS)]
                   /\ pc' = [pc EXCEPT ![t] = "generate"]
                   /\ UNCHANGED <<resp, log>>
    /\ UNCHANGED <<disk, engine, engines, req, self, splits, generated, acked,
                   nextReq, restarts>>
    /\ UNCHANGED <<stdin, prior>>

\* The language model generates one more token; the callback prints it.
llm_new_token(t) ==
    /\ pc[t] = "generate"
    /\ generated[t] < MaxTokens
    /\ generated' = [generated EXCEPT ![t] = @ + 1]
    /\ log' = on_llm_new_token(log, req[t].rid, generated[t] + 1)
    /\ UNCHANGED <<disk, engine, engines, pc, req, self, splits, retrieved,
                   resp, acked, nextReq, restarts>>
    /\ UNCHANGED <<stdin, prior>>

\* qa_chain.invoke returns (the answer is the tokens generated) or raises;
\* RAGEngine.query builds the final answer or the error response.
query_return(t) ==
    /\ pc[t] = "generate"
    /\ \E ok \in BOOLEAN :
          IF ok
          THEN Finish(t, FinalAnswer(generated[t], retrieved[t]))
          ELSE Finish(t, ErrorEnvelope("model invocation failed"))
    /\ UNCHANGED <<disk, engine, engines, req, self, splits, retrieved,
                   generated, acked, nextReq, restarts>>
    /\ UNCHANGED <<stdin, prior>>

\* The response has been sent; the worker is free again.
Return(t) ==
    /\ pc[t] = "done"
    /\ pc' = [pc EXCEPT ![t] = "idle"]
    /\ req' = [req EXCEPT ![t] = NoReq]
    /\ self' = [self EXCEPT ![t] = 0]
    /\ splits' = [splits EXCEPT ![t] = <<>>]
    /\ retrieved' = [retrieved EXCEPT ![t] = <<>>]
    /\ generated' = [generated EXCEPT ![t] = 0]
    /\ resp' = [resp EXCEPT ![t] = NoResp]
    /\ engines' = Live(engines, engine, self')
    /\ UNCHANGED <<disk, engine, log, acked, nextReq, restarts>>
    /\ UNCHANGED stdin
    /\ prior' = [prior EXCEPT ![t] = {}]

\* The process crashes and is started again (__main__: app.run): memory is
\* lost, the persist directory stays.
Restart ==
    /\ restarts < MaxRestarts
    /\ restarts' = restarts + 1
    /\ engine' = 0
    /\ engines' = <<>>
    /\ pc' = [t \in Threads |-> "idle"]
    /\ req' = [t \in Threads |-> NoReq]
    /\ self' = [t \in Threads |-> 0]
    /\ splits' = [t \in Threads |-> <<>>]
    /\ retrieved' = [t \in Threads |-> <<>>]
    /\ generated' = [t \in Threads |-> 0]
    /\ resp' = [t \in Threads |-> NoResp]
    /\ log' = <<>>
    /\ UNCHANGED <<disk, acked, nextReq>>
    /\ UNCHANGED stdin
    /\ prior' = [t \in Threads |-> {}]

Next ==
    \/ \E t \in Threads : Receive(t)
    \/ \E t \in Threads : initialize_engine(t)
    \/ \E t \in Threads : load_document_view(t)
    \/ \E t \in Threads : load_and_split(t)
    \/ \E t \in Threads : add_documents(t)
    \/ \E t \in Threads : save_local(t)
    \/ \E t \in Threads : handle_query(t)
    \/ \E t \in Threads : retrieve(t)
    \/ \E t \in Threads : llm_new_token(t)
    \/ \E t \in Threads : query_return(t)
    \/ \E t \in Threads : Return(t)
    \/ Restart

Spec == Init /\ [][Next]_vars

\* ------------------------------------------------------- the line protocol
\* The lines a caller may write: one that is not JSON.
Lines == {"{not json"}

\* A caller writes a line to the standard input of the process.  __main__
\* only starts the HTTP server: no code of the process reads the line.
WriteLine ==
    /\ Len(stdin) < MaxLines
    /\ \E l \in Lines : stdin' = Append(stdin, l)
    /\ UNCHANGED <<disk, engine, engines, pc, req, self, splits, retrieved,
                   generated, resp, log, acked, nextReq, restarts, prior>>

\* A step of the process while it serves at most MaxLineRequests requests.
ServeNext == Next /\ nextReq' <= MaxLineRequests + 1

\* The process with a caller on its standard input.
LineNext ==
    \/ WriteLine
    \/ ServeNext

\* The operating system keeps scheduling the process: whatever the process
\* can do, it eventually does.  The caller is under no obligation.
LineSpec == Init /\ [][LineNext]_vars /\ WF_vars(ServeNext)

\* ------------------------------------------------------------------ claims
Min(a, b) == IF a <= b THEN a ELSE b

\* Worker t has built its response and not yet handed the worker back.
Done(t) == pc[t] = "done"

IsIngest(t) == req[t].route = "load_document"

IsQuery(t) == req[t].route = "query"

\* The chunks request rid produced that are in a store.
ChunksOfReq(store, rid) == {c \in SeqToSet(store) : c.req = rid}

\* The token events of request rid on stdout, in the order printed.
TokensOf(l, rid) == SelectSeq(l, LAMBDA ev : ev.rid = rid)

\* Worker t took the step.
Stepped(t) ==
    \/ pc'[t] # pc[t]
    \/ generated'[t] # generated[t]

\* C1: whenever an ingest ends with an error response, at whichever step it
\* failed, no chunk of that call is in an in-memory index or in the
\* persisted index.
C1_FailedIngestLeavesIndexUntouched ==
    \A t \in Threads :
        (Done(t) /\ IsIngest(t) /\ resp[t].status = "error") =>
            /\ \A e \in DOMAIN engines :
                  ChunksOfReq(engines[e].vector_store, req[t].rid) = {}
            /\ ChunksOfReq(disk.index, req[t].rid) = {}

\* C2: at every moment, the persisted index holds the chunks of every
\* ingest that has been answered with status success (so a crash loses at
\* most the ingest in progress).
C2_AcknowledgedIngestsArePersisted ==
    acked \subseteq SeqToSet(disk.index)

\* No source of a final answer is the placeholder entry.
C3_SourcesHoldNoPlaceholder ==
    \A t \in Threads :
        (Done(t) /\ resp[t].type = "final_answer") =>
            \A i \in DOMAIN resp[t].sources :
                resp[t].sources[i].content # Placeholder

\* The retriever's step hands back min(K, real chunks of the store) entries.
C3_RetrieverCountsRealChunks ==
    \A t \in Threads :
        (pc[t] = "retrieve" /\ pc'[t] = "generate") =>
            Len(retrieved'[t]) =
                Min(TOP_K_RESULTS,
                    Cardinality(RealChunks(engines[self[t]].vector_store)))

\* C3: the placeholder entry is never among the sources returned, and a
\* query retrieves min(K, number of really ingested chunks) documents
\* (none, and no error, when nothing has been ingested).
C3_PlaceholderNeverReturned ==
    [][C3_RetrieverCountsRealChunks]_vars /\ []C3_SourcesHoldNoPlaceholder

\* C4: every request, whatever fails downstream (the engine's initialization
\* included), is answered with a structured response built by the
\* application: a success, an error envelope or a validation error.
C4_EveryFailureBecomesAnEnvelope ==
    \A t \in Threads :
        Done(t) => resp[t].type \in
            {"document_loaded", "final_answer", "error", "bad_request"}

\* Worker t is between its add and its persist, before and after the step.
C5_InCriticalSection(t) == pc[t] = "save_local" /\ pc'[t] = "save_local"

\* The step is worker u's add, persist or search.
C5_IndexStep(u) ==
    \/ pc[u] = "add_documents" /\ pc'[u] = "save_local"
    \/ pc[u] = "save_local" /\ pc'[u] = "done"
                            /\ resp'[u].type = "document_loaded"
    \/ pc[u] = "retrieve" /\ pc'[u] = "generate"

\* C5: while one request is between its add and its persist, no other
\* request searches, adds to or persists the index.
C5_IndexAccessIsSerialized ==
    [][\A t \in Threads : C5_InCriticalSection(t) =>
          \A u \in Threads \ {t} : ~C5_IndexStep(u)]_vars

\* A worker's request has just failed in the engine's initialization.
C6_InitFailed == \E t \in Threads : Done(t) /\ resp[t].type = "unhandled"

\* The step accepts a request, or runs a hook or a view for one.
C6_AcceptsOrServes ==
    \E u \in Threads :
        /\ pc[u] \in {"idle", "before_request", "view"}
        /\ pc'[u] \notin {pc[u], "idle"}

\* A request is inside a view or the engine only with an engine in place.
C6_ViewsRunInitialized ==
    \A t \in Threads :
        pc[t] \notin {"idle", "before_request", "done"} =>
            engine # 0 /\ engine \in DOMAIN engines

\* C6: an initialization failure is fatal: once the engine failed to
\* initialize, the process accepts no request and serves none; and no
\* request is handled unless the pipeline has been initialized.
C6_InitFailureIsFatal ==
    [][C6_InitFailed => ~C6_AcceptsOrServes]_vars /\ []C6_ViewsRunInitialized

\* The tokens of a query in flight are on stdout one per generated token,
\* in the order generated.
C7_TokensInOrder ==
    \A t \in Threads :
        IsQuery(t) =>
            TokensOf(log, req[t].rid) =
                [i \in 1..generated[t] |->
                    [type |-> "token", rid |-> req[t].rid, content |-> i]]

\* A final answer of n tokens is returned with n token events printed.
C7_AnswerAfterAllTokens ==
    \A t \in Threads :
        (Done(t) /\ resp[t].type = "final_answer") =>
            Len(TokensOf(log, req[t].rid)) = resp[t].answer

\* Once a query's response is built, no step prints a token of that query.
C7_NoTokenAfterTerminal ==
    \A t \in Threads :
        (Done(t) /\ IsQuery(t) /\ restarts' = restarts) =>
            TokensOf(log', req[t].rid) = TokensOf(log, req[t].rid)

\* C7: the token events of a query are printed one per generated token, in
\* the order generated; when the final answer is returned all of them have
\* been printed; and none is printed after the query's terminal response.
C7_TokensPrecedeAnswer ==
    /\ [](C7_TokensInOrder /\ C7_AnswerAfterAllTokens)
    /\ [][C7_NoTokenAfterTerminal]_vars

\* C7 witness: a final answer of MaxTokens tokens has been returned while
\* the tokens of another query are on stdout too.
C7_Witness ==
    \E t \in Threads :
        /\ Done(t) /\ resp[t].type = "final_answer"
        /\ resp[t].answer = MaxTokens
        /\ Len(log) > MaxTokens

\* C8: an ingest of a path whose extension is unsupported is rejected with
\* the unsupported-format error, whether or not the file exists, and adds
\* nothing to the index.
C8_UnsupportedExtensionRejectedFirst ==
    \A t \in Threads :
        (/\ Done(t) /\ IsIngest(t) /\ resp[t].type = "error"
         /\ Lower(Suffix(req[t].field)) \notin SUPPORTED_EXTENSIONS) =>
            /\ resp[t].message = "Unsupported file type"
            /\ \A e \in DOMAIN engines :
                  ChunksOfReq(engines[e].vector_store, req[t].rid) = {}

\* The message for the field a view requires.
C9_FieldMessage(t) ==
    IF IsIngest(t) THEN "file_path is required" ELSE "question is required"

\* C9: a request without a JSON content type is answered 400 with the
\* Content-Type error before any engine logic has run for it (no engine has
\* been built for it), and a request without its required field is answered
\* 400 with the field's message without the engine's load_document or query
\* being called.
C9_ValidationBeforeEngineLogic ==
    \A t \in Threads :
        /\ (req[t].rid # 0 /\ ~req[t].is_json) =>
              /\ req[t].rid \notin DOMAIN engines
              /\ Done(t) =>
                    resp[t] = BadRequest("Content-Type must be application/json")
        /\ (req[t].is_json /\ req[t].field = None /\ Done(t)) =>
              /\ resp[t] = BadRequest(C9_FieldMessage(t))
              /\ self[t] = 0

\* The real chunks of the index the process serves (the global engine's).
C10_ServedIndex ==
    IF engine = 0 THEN {} ELSE RealChunks(engines[engine].vector_store)

\* A step of a query request changes neither the served nor the persisted
\* index.
C10_QueryStepKeepsIndex ==
    \A t \in Threads :
        (IsQuery(t) /\ Stepped(t) /\ engine # 0 /\ restarts' = restarts) =>
            /\ C10_ServedIndex' = C10_ServedIndex
            /\ RealChunks(disk'.index) = RealChunks(disk.index)

\* An ingest that did not succeed has left no chunk in either.
C10_FailedIngestKeepsIndex ==
    \A t \in Threads :
        (Done(t) /\ IsIngest(t) /\ resp[t].status # "success") =>
            /\ \A c \in C10_ServedIndex : c.req # req[t].rid
            /\ \A c \in RealChunks(disk.index) : c.req # req[t].rid

\* C10: a query request, whether it succeeds or fails, leaves the contents
\* of the served index and of the persisted index unchanged; only a
\* successful ingest changes them.
C10_OnlySuccessfulIngestChangesIndex ==
    [][C10_QueryStepKeepsIndex]_vars /\ []C10_FailedIngestKeepsIndex

\* The step in which worker t persists its engine's store and answers
\* success.
Persists(t) ==
    pc[t] = "save_local" /\ pc'[t] = "done" /\ resp'[t].status = "success"

\* The step in which worker t's hook builds an engine whose store came from
\* load_local.
Reloads(t) ==
    /\ pc[t] = "before_request" /\ pc'[t] = "view"
    /\ engines'[req[t].rid].loaded

\* What is on disk after a persist loads back as the store that was saved.
C11_PersistKeepsStore ==
    \A t \in Threads :
        Persists(t) =>
            LET before == engines[self[t]].vector_store
                after == LoadLocal(disk')
            IN  /\ after = before
                /\ \A q \in Questions :
                      Search(after, q, TOP_K_RESULTS)
                          = Search(before, q, TOP_K_RESULTS)

\* An engine initialized from the persist directory holds the entries
\* persisted there, in their order.
C11_ReloadYieldsPersisted ==
    \A t \in Threads :
        Reloads(t) =>
            LET after == engines'[req[t].rid].vector_store
            IN  /\ after = disk.index
                /\ \A q \in Questions :
                      Search(after, q, TOP_K_RESULTS)
                          = Search(disk.index, q, TOP_K_RESULTS)

EngineResult(t) == Done(t) /\ self[t] # 0

\* C12: both POST endpoints answer 200 exactly when the engine result has
\* status success and 400 with {status: error, message} otherwise; the
\* response of a successful ingest reports the requested file_path and a
\* num_chunks equal to the number of chunks that call added to the index.
C12_StatusFollowsEngineResult ==
    \A t \in Threads :
        EngineResult(t) =>
            /\ resp[t].code = 200 <=> resp[t].status = "success"
            /\ resp[t].status # "success" =>
                  /\ resp[t].code = 400
                  /\ resp[t].status = "error"
                  /\ resp[t].message # NoResp.message
            /\ (IsIngest(t) /\ resp[t].status = "success") =>
                  /\ resp[t].file_path = req[t].field
                  /\ resp[t].num_chunks =
                        Cardinality(ChunksOfReq(engines[self[t]].vector_store,
                                                req[t].rid))
                  /\ resp[t].num_chunks = NumChunks(req[t].field)

\* One worker holds the success response of an ingest of several chunks
\* while the other holds an engine's error response.
C12_Witness ==
    \E t, u \in Threads :
        /\ EngineResult(t) /\ IsIngest(t) /\ resp[t].code = 200
        /\ resp[t].num_chunks = MaxChunks
        /\ EngineResult(u) /\ resp[u].code = 400

\* An error event line on stdout.
ErrorEventPrinted == \E i \in DOMAIN log : log[i].type = "error"

\* C13: on the line-delimited stdin/stdout protocol a malformed JSON input
\* line produces an error event line (and the loop goes on to the next
\* line): a line written to standard input is eventually read, and an error
\* event is eventually printed for it.
C13_MalformedLineAnswered ==
    /\ (stdin # <<>>) ~> (stdin = <<>>)
    /\ (stdin # <<>>) ~> ErrorEventPrinted

\* C14: the engine is created once at startup and the same instance serves
\* every later request: while the process runs, no step replaces the engine
\* the process already has.
C14_EngineCreatedOnce ==
    [][(engine # 0 /\ restarts' = restarts) => engine' = engine]_vars

\* C15: the index is append-only: across ingests, queries, initializations
\* and restarts the set of chunks in the persisted index only grows.
C15_PersistedIndexOnlyGrows ==
    [][RealChunks(disk.index) \subseteq RealChunks(disk'.index)]_vars

\* The step in which worker t's hook completes: an engine now serves.
Initializes(t) == pc[t] = "before_request" /\ pc'[t] = "view"

\* Whichever branch the vector-store stage took, the engine holds what that
\* branch prescribes: the persisted entries if load_local returned, the
\* fresh (placeholder-only) index otherwise, and a load needs a saved index.
C16_StoreFollowsBranch ==
    \A t \in Threads :
        Initializes(t) =>
            LET e == engines'[req[t].rid]
            IN  /\ e.loaded => (disk.saved /\ e.vector_store = disk.index)
                /\ ~e.loaded => e.vector_store = <<Placeholder>>
                /\ ~disk.saved => ~e.loaded
                /\ disk'.dir

\* A hook that is about to run can complete with the fresh index, whatever
\* is in the persist directory: a load that fails does not fail the hook.
C16_FallbackSucceeds ==
    \A t \in Threads :
        pc[t] = "before_request" =>
            ENABLED (/\ initialize_engine(t)
                     /\ Initializes(t)
                     /\ ~engines'[req[t].rid].loaded)

\* A hook that is about to run on a saved index can complete with it.
C16_LoadSucceeds ==
    \A t \in Threads :
        (pc[t] = "before_request" /\ disk.saved) =>
            ENABLED (/\ initialize_engine(t)
                     /\ Initializes(t)
                     /\ engines'[req[t].rid].loaded)

\* C16: at initialization, if a persisted index exists and loads, the engine
\* uses exactly that index; if it is absent or loading it fails, the engine
\* starts with a fresh empty index and initialization still succeeds: a load
\* failure alone never makes initialization fail.
C16_LoadOrFreshIndex ==
    /\ [][C16_StoreFollowsBranch]_vars
    /\ [](C16_FallbackSucceeds /\ C16_LoadSucceeds)

\* An engine serves with the fresh index although a saved index with real
\* chunks is on disk: its load failed and the hook completed.
C16_Witness ==
    \E t \in Threads :
        /\ pc[t] = "view" /\ engine = req[t].rid
        /\ disk.saved /\ RealChunks(disk.index) # {}
        /\ ~engines[engine].loaded
        /\ engines[engine].vector_store = <<Placeholder>>

\* C17: the sources list of every successful query response mirrors the
\* retrieved chunks one-to-one, content and metadata, in retrieval order,
\* and therefore has at most K entries; K is TOP_K_RESULTS.
C17_SourcesMirrorRetrieved ==
    \A t \in Threads :
        (Done(t) /\ resp[t].type = "final_answer") =>
            LET sources == resp[t].sources
                docs == retrieved[t]
            IN  /\ Len(sources) = Len(docs)
                /\ Len(sources) <= TOP_K_RESULTS
                /\ \A i \in DOMAIN sources :
                      /\ sources[i].content = docs[i]
                      /\ sources[i].metadata = docs[i].source
                      /\ docs[i] \in SeqToSet(engines[self[t]].vector_store)
                /\ \A i, j \in DOMAIN docs :
                      i < j => /\ docs[i] # docs[j]
                               /\ Distance(req[t].field, docs[i])
                                     <= Distance(req[t].field, docs[j])

\* A query answered from a store of more than K entries cites exactly K
\* of them, not all at the same distance.
C17_Witness ==
    \E t \in Threads :
        /\ Done(t) /\ resp[t].type = "final_answer"
        /\ Len(engines[self[t]].vector_store) > TOP_K_RESULTS
        /\ Len(resp[t].sources) = TOP_K_RESULTS
        /\ resp[t].sources[1].metadata # resp[t].sources[TOP_K_RESULTS].metadata

\* C18: read-your-writes: once an ingest has returned success, every query
\* that starts afterwards retrieves over an index that contains all chunks
\* of that ingest.
C18_ReadYourWrites ==
    \A t \in Threads :
        (IsQuery(t) /\ pc[t] = "retrieve") =>
            prior[t] \subseteq SeqToSet(engines[self[t]].vector_store)

\* C19: each handler operates on the engine its own before-request hook
\* created: the engine a view's call is bound to is the one built for that
\* request, so no other request replaced the global in between.
C19_HandlerUsesOwnEngine ==
    \A t \in Threads : self[t] # 0 => self[t] = req[t].rid

====
